---- MODULE Spec2Model ----
(***************************************************************************)
(* Model of PremiumComparator.py: DataExtractor (header location, sheet    *)
(* selection and extraction), DataComparer (aggregation of the Given       *)
(* table, key normalisation, outer merge, status and multivalues) and the  *)
(* part of main that hands the Given table to compare_data.                *)
(*                                                                         *)
(* Python strings are sequences of one-character strings, so that lower(), *)
(* strip(), startswith(), `in` and str() are computed character by         *)
(* character.  A cell value is a record [t, v] whose t is the name of its  *)
(* Python type ("str", "int", "float"); the only float is NaN.  A          *)
(* DataFrame is a record [columns, rows]: columns is the sequence of       *)
(* column labels and each row is a function from column label to value.    *)
(***************************************************************************)
EXTENDS Integers, Sequences, FiniteSets, TLC

VARIABLES
    pc,                 \* which function is running / has returned
    sample_df,          \* extract_sheet_data: the raw rows of the sheet being sampled
    header_row_index,   \* extract_sheet_data: header_row_index (None until set)
    workbook,           \* extract_data_from_file: [file, year, sheets] being read
    sheet_idx,          \* extract_data_from_file: position in sheet_names
    extracted_frames,   \* extract_data_from_file: extracted_frames
    extracted_data,     \* extract_data_from_file: the returned DataFrame
    given_df,           \* the concatenated (pre-aggregation) Given table
    shuffled_df,        \* the same rows in another processing order
    agg_df,             \* aggregate_given_data(given_df)
    agg_shuffled,       \* aggregate_given_data(shuffled_df)
    s3_df,              \* the S3 table as read by main
    comparison_df       \* compare_data's result

vars == <<pc, sample_df, header_row_index, workbook, sheet_idx,
          extracted_frames, extracted_data, given_df, shuffled_df, agg_df,
          agg_shuffled, s3_df, comparison_df>>

\* Python's None.
None == [t |-> "NoneType", v |-> "None"]

\* float('nan'): an empty spreadsheet cell, a missing value after a merge.
NaN == [t |-> "float", v |-> "nan"]

\* A Python str value and a Python int value.
StrVal(s) == [t |-> "str", v |-> s]

IntVal(n) == [t |-> "int", v |-> n]

\* pd.isnull(x): True for None and NaN.
isnull(x) == x = None \/ x = NaN

----------------------------------------------------------------------------
(* Characters and the str methods the program uses. *)

UpperLetters == <<"A", "B", "C", "D", "E", "F", "G", "H", "I", "J", "K", "L", "M",
                  "N", "O", "P", "Q", "R", "S", "T", "U", "V", "W", "X", "Y", "Z">>

LowerLetters == <<"a", "b", "c", "d", "e", "f", "g", "h", "i", "j", "k", "l", "m",
                  "n", "o", "p", "q", "r", "s", "t", "u", "v", "w", "x", "y", "z">>

\* The characters of the model in code point order (sorting compares code points).
CodePointOrder == <<" ", "0", "1", "2", "3", "4", "5", "6", "7", "8", "9", ":",
                    "A", "B", "C", "D", "E", "F", "G", "H", "I", "J", "K", "L", "M",
                    "N", "O", "P", "Q", "R", "S", "T", "U", "V", "W", "X", "Y", "Z",
                    "_",
                    "a", "b", "c", "d", "e", "f", "g", "h", "i", "j", "k", "l", "m",
                    "n", "o", "p", "q", "r", "s", "t", "u", "v", "w", "x", "y", "z">>

DigitChars == <<"0", "1", "2", "3", "4", "5", "6", "7", "8", "9">>

Whitespace == {" ", "\t", "\n", "\r"}

IndexIn(seq, c) == CHOOSE n \in 1..Len(seq) : seq[n] = c

Ord(c) == IndexIn(CodePointOrder, c)

\* The lowercase letter of each uppercase letter.
LowerOf == [c \in {UpperLetters[n] : n \in 1..Len(UpperLetters)} |->
               LowerLetters[IndexIn(UpperLetters, c)]]

LowerChar(c) == IF c \in DOMAIN LowerOf THEN LowerOf[c] ELSE c

\* str.lower()
RECURSIVE Lower(_)
Lower(s) == IF s = <<>> THEN <<>> ELSE <<LowerChar(s[1])>> \o Lower(Tail(s))

\* str.strip(): drop leading and trailing whitespace.
Strip(s) ==
    LET keep == {n \in 1..Len(s) : s[n] \notin Whitespace}
    IN  IF keep = {} THEN <<>>
        ELSE LET lo == CHOOSE n \in keep : \A m \in keep : n <= m
                 hi == CHOOSE n \in keep : \A m \in keep : m <= n
             IN  SubSeq(s, lo, hi)

\* str.startswith(prefix)
StartsWith(s, prefix) ==
    Len(prefix) <= Len(s) /\ SubSeq(s, 1, Len(prefix)) = prefix

\* sub in s
Contains(s, sub) ==
    \E n \in 0..(Len(s) - Len(sub)) : SubSeq(s, n + 1, n + Len(sub)) = sub

\* str(n) for a natural number n.
RECURSIVE Digits(_)
Digits(n) ==
    IF n < 10 THEN <<DigitChars[n + 1]>>
    ELSE Digits(n \div 10) \o <<DigitChars[(n % 10) + 1]>>

\* str(x) / astype(str) of one value.
Str(x) ==
    CASE x.t = "str" -> x.v
      [] x.t = "int" -> Digits(x.v)
      [] x.t = "float" -> <<"n", "a", "n">>
      [] OTHER -> <<"N", "o", "n", "e">>

\* int(s) for a string of decimal digits, surrounding whitespace ignored.
RECURSIVE ParseDigits(_)
ParseDigits(s) ==
    IF s = <<>> THEN 0
    ELSE 10 * ParseDigits(SubSeq(s, 1, Len(s) - 1))
         + (IndexIn(DigitChars, s[Len(s)]) - 1)

IsNumeric(s) ==
    /\ Strip(s) # <<>>
    /\ \A n \in 1..Len(Strip(s)) : \E d \in 1..10 : DigitChars[d] = Strip(s)[n]

\* astype(int) of one value (the caller has checked that it converts).
ToInt(x) == IF x.t = "int" THEN x.v ELSE ParseDigits(Strip(x.v))

\* ' '.join(parts)
RECURSIVE Join(_)
Join(parts) ==
    IF parts = <<>> THEN <<>>
    ELSE IF Len(parts) = 1 THEN parts[1]
    ELSE parts[1] \o <<" ">> \o Join(Tail(parts))

\* Python's ordering of two str values (by code point, shorter prefix first).
RECURSIVE StrLess(_, _)
StrLess(a, b) ==
    IF b = <<>> THEN FALSE
    ELSE IF a = <<>> THEN TRUE
    ELSE IF a[1] # b[1] THEN Ord(a[1]) < Ord(b[1])
    ELSE StrLess(Tail(a), Tail(b))

----------------------------------------------------------------------------
(* String literals of the program. *)

total_premium == <<"t", "o", "t", "a", "l", " ", "p", "r", "e", "m", "i", "u", "m">>

policy_number == <<"p", "o", "l", "i", "c", "y", " ", "n", "u", "m", "b", "e", "r">>

base == <<"b", "a", "s", "e">>

reward == <<"r", "e", "w", "a", "r", "d">>

----------------------------------------------------------------------------
(* DataExtractor.extract_sheet_data, lines 26-37: locating the header row. *)

\* nrows=5 of the sampling read.
NSampleRows == 5

\* read_excel(header=None, nrows=5): the first five raw rows.
Sample(rows) ==
    SubSeq(rows, 1, IF Len(rows) < NSampleRows THEN Len(rows) ELSE NSampleRows)

\* row_str = ' '.join(sample_df.iloc[i].astype(str).str.lower())
row_str(row) == Join([n \in 1..Len(row) |-> Lower(Str(row[n]))])

\* 'total premium' in row_str and 'policy number' in row_str
IsHeaderRow(row) ==
    /\ Contains(row_str(row), total_premium)
    /\ Contains(row_str(row), policy_number)

\* HeaderScan without the break of line 34: the last header row wins.
RECURSIVE HeaderScanNoBreak(_, _)
HeaderScanNoBreak(sample, n) ==
    IF n >= Len(sample) THEN None
    ELSE LET later == HeaderScanNoBreak(sample, n + 1)
         IN  IF later # None THEN later
             ELSE IF IsHeaderRow(sample[n + 1]) THEN IntVal(n)
             ELSE None

\* The for loop of lines 30-34 from row n (0-based) on: the first header row's
\* index, or None when the sample is exhausted.
RECURSIVE HeaderScan(_, _)
HeaderScan(sample, n) ==
    IF n >= Len(sample) THEN None
    ELSE IF IsHeaderRow(sample[n + 1]) THEN IntVal(n)
    ELSE HeaderScan(sample, n + 1)

\* header_row_index after line 37: the index found, or 0 by default.
LocateHeader(rows) ==
    LET found == HeaderScan(Sample(rows), 0)
    IN  IF found = None THEN IntVal(0) ELSE found

----------------------------------------------------------------------------
(* DataExtractor.extract_sheet_data, lines 39-58: reading and extracting.  *)

Year == <<"Y", "e", "a", "r">>

Insurer == <<"I", "n", "s", "u", "r", "e", "r">>

Type == <<"T", "y", "p", "e">>

Policy_number == <<"P", "o", "l", "i", "c", "y", " ", "n", "u", "m", "b", "e", "r">>

Premium == <<"P", "r", "e", "m", "i", "u", "m">>

Datatype == <<"D", "a", "t", "a", "t", "y", "p", "e">>

Unnamed == <<"U", "n", "n", "a", "m", "e", "d", ":", " ">>

\* pd.DataFrame(): no columns, no rows.
EmptyDataFrame == [columns |-> <<>>, rows |-> <<>>]

\* type(x).__name__
TypeName(x) ==
    CASE x.t = "str" -> <<"s", "t", "r">>
      [] x.t = "int" -> <<"i", "n", "t">>
      [] OTHER -> <<"f", "l", "o", "a", "t">>

\* read_excel(header=h): the labels pandas gives the columns of header row h;
\* an empty header cell is labelled "Unnamed: <position>".
ColumnLabels(rows, h) ==
    [k \in 1..Len(rows[h + 1]) |->
        IF rows[h + 1][k] = NaN THEN StrVal(Unnamed \o Digits(k - 1))
        ELSE rows[h + 1][k]]

\* df.columns.str.strip().str.lower(): a label that is not a str becomes NaN.
NormalizeLabels(labels) ==
    [k \in 1..Len(labels) |->
        IF labels[k].t = "str" THEN StrVal(Lower(Strip(labels[k].v))) ELSE NaN]

\* name in df.columns
HasColumn(labels, name) == \E k \in 1..Len(labels) : labels[k] = StrVal(name)

ColumnOf(labels, name) == CHOOSE k \in 1..Len(labels) : labels[k] = StrVal(name)

\* The rows below header row h.
DataRows(rows, h) == SubSeq(rows, h + 2, Len(rows))

\* One row of a DataFrame: the function from each label to its value.
RECURSIVE Row(_, _)
Row(labels, values) ==
    IF labels = <<>> THEN <<>>
    ELSE (labels[1] :> values[1]) @@ Row(Tail(labels), Tail(values))

\* A DataFrame of the given columns and rows.
DataFrame(columns, rows) ==
    [columns |-> SubSeq(columns, 1, Len(columns)), rows |-> SubSeq(rows, 1, Len(rows))]

ExtractedColumns == <<Year, Insurer, Type, Policy_number, Premium, Datatype>>

\* extract_sheet_data(file_handler, file_path, sheet_name, year, insurer):
\* None, or the extracted DataFrame.
extract_sheet_data(rows, sheet_name, yr, ins) ==
    LET h      == LocateHeader(rows).v
        labels == NormalizeLabels(ColumnLabels(rows, h))
        data   == DataRows(rows, h)
    IN  IF ~HasColumn(labels, policy_number) \/ ~HasColumn(labels, total_premium)
        THEN None
        ELSE DataFrame(ExtractedColumns,
                 [n \in 1..Len(data) |->
                     Row(ExtractedColumns,
                         <<yr, ins, StrVal(Lower(sheet_name)),
                           data[n][ColumnOf(labels, policy_number)],
                           data[n][ColumnOf(labels, total_premium)],
                           StrVal(TypeName(data[n][ColumnOf(labels, total_premium)]))>>)])

----------------------------------------------------------------------------
(* DataExtractor.extract_data_from_file, lines 60-73.                      *)

\* os.path.basename(path)
Basename(path) ==
    LET slashes == {n \in 1..Len(path) : path[n] = "/"}
    IN  IF slashes = {} THEN path
        ELSE SubSeq(path, (CHOOSE n \in slashes : \A m \in slashes : m <= n) + 1,
                    Len(path))

\* os.path.splitext(name)[0]: the name up to its last dot (a leading dot is
\* part of the name).
SplitExtRoot(name) ==
    LET dots == {n \in 2..Len(name) : name[n] = "."}
    IN  IF dots = {} THEN name
        ELSE SubSeq(name, 1, (CHOOSE n \in dots : \A m \in dots : m <= n) - 1)

\* insurer = os.path.splitext(os.path.basename(file_path))[0]
InsurerOf(file_path) == SplitExtRoot(Basename(file_path))

\* IsSelectedSheet without the lower() of line 66.
IsSelectedSheetCaseSensitive(sheet_name) ==
    StartsWith(sheet_name, base) \/ StartsWith(sheet_name, reward)

\* sheet.lower().startswith('base') or sheet.lower().startswith('reward')
IsSelectedSheet(sheet_name) ==
    StartsWith(Lower(sheet_name), base) \/ StartsWith(Lower(sheet_name), reward)

\* pd.concat(frames, ignore_index=True) of frames with the same columns.
RECURSIVE ConcatRows(_)
ConcatRows(frames) ==
    IF frames = <<>> THEN <<>>
    ELSE frames[1].rows \o ConcatRows(Tail(frames))

Concat(frames) == DataFrame(frames[1].columns, ConcatRows(frames))

----------------------------------------------------------------------------
(* DataFrame operations used by DataComparer.                              *)

\* An exception leaving the function in place of its result.
Raised == [t |-> "exception", v |-> "raised"]

ColumnSet(df) == {df.columns[k] : k \in 1..Len(df.columns)}

\* df with its columns relabelled, position by position, as labels.
Relabel(df, labels) ==
    LET new == SubSeq(labels, 1, Len(labels))
    IN  DataFrame(new,
            [n \in 1..Len(df.rows) |->
                Row(new, [k \in 1..Len(new) |-> df.rows[n][df.columns[k]]])])

\* df.columns = df.columns.str.strip().str.lower()
StripLowerColumns(df) ==
    Relabel(df, [k \in 1..Len(df.columns) |-> Lower(Strip(df.columns[k]))])

\* df.rename(columns={old: new}, inplace=True): no effect without column old.
RenameColumn(df, old, new) ==
    Relabel(df, [k \in 1..Len(df.columns) |->
                    IF df.columns[k] = old THEN new ELSE df.columns[k]])

\* df[col] = values: column col replaced, or added as the last column.
WithColumn(df, col, values) ==
    LET new == IF col \in ColumnSet(df) THEN df.columns ELSE Append(df.columns, col)
    IN  DataFrame(new,
            [n \in 1..Len(df.rows) |->
                Row(new, [k \in 1..Len(new) |->
                             IF new[k] = col THEN values[n]
                             ELSE df.rows[n][new[k]]])])

\* The order pandas sorts values of one key column in: numbers before
\* strings, numbers by value, strings by code point.
ValueLess(a, b) ==
    CASE a.t = "int" /\ b.t = "int" -> a.v < b.v
      [] a.t = "int" /\ b.t = "str" -> TRUE
      [] a.t = "str" /\ b.t = "str" -> StrLess(a.v, b.v)
      [] OTHER -> FALSE

\* Lexicographic order of two key tuples.
RECURSIVE KeyLess(_, _)
KeyLess(k1, k2) ==
    IF k1 = <<>> THEN FALSE
    ELSE IF k1[1] # k2[1] THEN ValueLess(k1[1], k2[1])
    ELSE KeyLess(Tail(k1), Tail(k2))

\* The keys of a set in ascending order.
RECURSIVE SortKeys(_)
SortKeys(keys) ==
    IF keys = {} THEN <<>>
    ELSE LET least == CHOOSE k \in keys : \A other \in keys \ {k} : KeyLess(k, other)
         IN  <<least>> \o SortKeys(keys \ {least})

\* The key of a row under the key columns on.
KeyOf(row, on) == SubSeq([k \in 1..Len(on) |-> row[on[k]]], 1, Len(on))

----------------------------------------------------------------------------
(* DataComparer.aggregate_given_data, lines 77-93.                         *)

year == <<"y", "e", "a", "r">>

insurer == <<"i", "n", "s", "u", "r", "e", "r">>

type == <<"t", "y", "p", "e">>

premium == <<"p", "r", "e", "m", "i", "u", "m">>

datatype == <<"d", "a", "t", "a", "t", "y", "p", "e">>

agg_type == <<"a", "g", "g", "_", "t", "y", "p", "e">>

\* 'base' if x.startswith('base') else ('reward' if x.startswith('reward') else x)
CanonicalType(x) ==
    IF StartsWith(x, base) THEN base
    ELSE IF StartsWith(x, reward) THEN reward
    ELSE x

GroupColumns == <<year, insurer, agg_type, policy_number>>

\* groupby(...) with dropna=True: a row with a missing value in a group key
\* belongs to no group.
InSomeGroup(row) == \A k \in 1..Len(GroupColumns) : ~isnull(row[GroupColumns[k]])

\* .agg({'premium': 'sum'}) over the rows of one group.
RECURSIVE SumPremium(_, _)
SumPremium(rows, key) ==
    IF rows = <<>> THEN 0
    ELSE (IF InSomeGroup(rows[1]) /\ KeyOf(rows[1], GroupColumns) = key
          THEN rows[1][premium].v ELSE 0)
         + SumPremium(Tail(rows), key)

\* The keys in the order in which the rows first show them (sort=False).
RECURSIVE GroupKeysUnsorted(_)
GroupKeysUnsorted(rows) ==
    IF rows = <<>> THEN <<>>
    ELSE LET before == GroupKeysUnsorted(SubSeq(rows, 1, Len(rows) - 1))
             last   == rows[Len(rows)]
         IN  IF InSomeGroup(last)
                /\ \A n \in 1..Len(before) : before[n] # KeyOf(last, GroupColumns)
             THEN Append(before, KeyOf(last, GroupColumns))
             ELSE before

\* groupby(..., as_index=False) sorts the groups by key (sort=True).
GroupKeys(rows) ==
    SortKeys({KeyOf(rows[n], GroupColumns) : n \in {m \in 1..Len(rows) : InSomeGroup(rows[m])}})

\* Lines 84-86: given_df as aggregate_given_data leaves it in place, with
\* normalized column names and the agg_type column.
WithAggType(df) ==
    LET lowered == StripLowerColumns(df)
    IN  WithColumn(lowered, agg_type,
                   [n \in 1..Len(lowered.rows) |->
                       StrVal(CanonicalType(lowered.rows[n][type].v))])

AggregatedColumns == <<year, insurer, type, policy_number, premium, datatype>>

\* aggregate_given_data(given_df): the aggregated table; an exception when
\* given_df has no 'type' column (pd.DataFrame() has no column at all).
aggregate_given_data(df) ==
    IF type \notin ColumnSet(StripLowerColumns(df)) THEN Raised
    ELSE LET rows == WithAggType(df).rows
             keys == GroupKeys(rows)
         IN  DataFrame(AggregatedColumns,
                 [g \in 1..Len(keys) |->
                     Row(AggregatedColumns,
                         <<keys[g][1], keys[g][2], keys[g][3], keys[g][4],
                           IntVal(SumPremium(rows, keys[g])),
                           StrVal(TypeName(IntVal(SumPremium(rows, keys[g]))))>>)])

\* main, lines 198-201: the concatenation of the extracted frames, each of
\* which has rows, or pd.DataFrame() when there is none.
GivenFrame(rows) ==
    IF rows # <<>> THEN DataFrame(ExtractedColumns, rows)
    ELSE EmptyDataFrame

----------------------------------------------------------------------------
(* DataComparer.compare_data, lines 95-164.                                *)

Status == <<"S", "t", "a", "t", "u", "s">>

Multivalues == <<"M", "u", "l", "t", "i", "v", "a", "l", "u", "e", "s">>

S3_premium == <<"S", "3", "_", "p", "r", "e", "m", "i", "u", "m">>

Given_premium == <<"G", "i", "v", "e", "n", "_", "p", "r", "e", "m", "i", "u", "m">>

premium_s3 == <<"p", "r", "e", "m", "i", "u", "m", "_", "s", "3">>

premium_given == <<"p", "r", "e", "m", "i", "u", "m", "_", "g", "i", "v", "e", "n">>

Missing_in_S3 == <<"M", "i", "s", "s", "i", "n", "g", " ", "i", "n", " ", "S", "3">>

Missing_in_Given == <<"M", "i", "s", "s", "i", "n", "g", " ", "i", "n", " ", "G", "i", "v", "e", "n">>

Both_Missing == <<"B", "o", "t", "h", " ", "M", "i", "s", "s", "i", "n", "g">>

Matches == <<"M", "a", "t", "c", "h", "e", "s">>

Not_matches == <<"N", "o", "t", " ", "m", "a", "t", "c", "h", "e", "s">>

\* Lines 97-100: the S3 columns normalized, 'total premium' renamed 'premium'.
S3Renamed(df) == RenameColumn(StripLowerColumns(df), total_premium, premium)

\* for col in ['insurer', 'type', 'policy number'] (line 109)
StandardizedColumns == <<insurer, type, policy_number>>

\* Line 110 for every col: df[col] = df[col].astype(str).str.strip().str.lower()
RECURSIVE Standardized(_, _)
Standardized(df, cols) ==
    IF cols = <<>> THEN df
    ELSE Standardized(
             WithColumn(df, cols[1],
                 [n \in 1..Len(df.rows) |->
                     StrVal(Lower(Strip(Str(df.rows[n][cols[1]]))))]),
             Tail(cols))

\* int(x) does not raise.
ConvertsToInt(x) == x.t = "int" \/ (x.t = "str" /\ IsNumeric(x.v))

\* df['year'] = df['year'].astype(int)
YearAsInt(df) ==
    WithColumn(df, year, [n \in 1..Len(df.rows) |-> IntVal(ToInt(df.rows[n][year]))])

\* on=['year', 'insurer', 'type', 'policy number']
MergeOn == <<year, insurer, type, policy_number>>

\* The columns of df that are no merge key, in df's order.
NonKeyColumns(df) == SelectSeq(df.columns, LAMBDA c : \A k \in 1..Len(MergeOn) : MergeOn[k] # c)

\* suffixes=('_s3', '_given'): a non-key column that both frames have gets
\* the suffix of its side.
Suffixed(c, other, suffix) ==
    IF \E k \in 1..Len(MergeOn) : MergeOn[k] = c THEN c
    ELSE IF c \in ColumnSet(other) THEN c \o suffix
    ELSE c

MergedColumns(left, right) ==
    LET others == NonKeyColumns(right)
    IN  [k \in 1..Len(left.columns) |-> Suffixed(left.columns[k], right, <<"_", "s", "3">>)]
        \o [k \in 1..Len(others) |->
               Suffixed(others[k], left, <<"_", "g", "i", "v", "e", "n">>)]

\* The merged row of left row l and right row r; None stands for the side that
\* has no row of the key, whose columns are NaN.
MergedRow(left, right, l, r) ==
    LET others == NonKeyColumns(right)
    IN  Row(MergedColumns(left, right),
            [k \in 1..Len(left.columns) |->
                IF l # None THEN l[left.columns[k]]
                ELSE IF \E m \in 1..Len(MergeOn) : MergeOn[m] = left.columns[k]
                     THEN r[left.columns[k]]
                     ELSE NaN]
            \o [k \in 1..Len(others) |-> IF r # None THEN r[others[k]] ELSE NaN])

\* The rows of right with the key of l.
MatchesOf(right, l) ==
    SelectSeq(right.rows, LAMBDA r : KeyOf(r, MergeOn) = KeyOf(l, MergeOn))

\* The merged rows of the left rows from position n on: one per matching right
\* row, one with NaN on the right for a left row without a match.
RECURSIVE LeftJoined(_, _, _)
LeftJoined(left, right, n) ==
    IF n > Len(left.rows) THEN <<>>
    ELSE LET l == left.rows[n]
             found == MatchesOf(right, l)
         IN  (IF found = <<>> THEN <<MergedRow(left, right, l, None)>>
              ELSE [m \in 1..Len(found) |-> MergedRow(left, right, l, found[m])])
             \o LeftJoined(left, right, n + 1)

\* RightOnly of a merge with how='left': no such row.
RightOnlyOfLeftJoin(left, right) == <<>>

\* The merged rows of the right rows that no left row matches.
RightOnly(left, right) ==
    LET alone == SelectSeq(right.rows,
                     LAMBDA r : \A n \in 1..Len(left.rows) :
                         KeyOf(left.rows[n], MergeOn) # KeyOf(r, MergeOn))
    IN  [m \in 1..Len(alone) |-> MergedRow(left, right, None, alone[m])]

\* rows in ascending key order, rows of one key in their given order.
RECURSIVE SortedByKey(_)
SortedByKey(rows) ==
    IF rows = <<>> THEN <<>>
    ELSE LET first == CHOOSE n \in 1..Len(rows) :
                 /\ \A m \in 1..Len(rows) :
                       ~KeyLess(KeyOf(rows[m], MergeOn), KeyOf(rows[n], MergeOn))
                 /\ \A m \in 1..(n - 1) :
                       KeyOf(rows[m], MergeOn) # KeyOf(rows[n], MergeOn)
         IN  <<rows[first]>>
             \o SortedByKey(SubSeq(rows, 1, first - 1) \o SubSeq(rows, first + 1, Len(rows)))

\* pd.merge(left, right, on=MergeOn, how='outer', suffixes=('_s3', '_given'))
Merge(left, right) ==
    DataFrame(MergedColumns(left, right),
              SortedByKey(LeftJoined(left, right, 1) \o RightOnly(left, right)))

\* row.get(col): None without such a column.
Get(row, col) == IF col \in DOMAIN row THEN row[col] ELSE None

\* determine_status(row), lines 119-131.
determine_status(row) ==
    LET s3_premium == Get(row, total_premium)
        given_premium == Get(row, premium)
    IN  IF isnull(s3_premium) /\ ~isnull(given_premium) THEN Missing_in_S3
        ELSE IF isnull(given_premium) /\ ~isnull(s3_premium) THEN Missing_in_Given
        ELSE IF isnull(s3_premium) /\ isnull(given_premium) THEN Both_Missing
        ELSE IF s3_premium = given_premium THEN Matches
        ELSE Not_matches

\* record_multivalues(row), lines 137-141.
record_multivalues(row) ==
    IF row[Status] = StrVal(Not_matches)
    THEN <<"[">> \o Str(Get(row, total_premium)) \o <<",", " ">>
         \o Str(Get(row, premium)) \o <<"]">>
    ELSE <<>>

\* merged['Status'] = merged.apply(determine_status, axis=1)
WithStatus(df) ==
    WithColumn(df, Status, [n \in 1..Len(df.rows) |-> StrVal(determine_status(df.rows[n]))])

\* merged['Multivalues'] = merged.apply(record_multivalues, axis=1)
WithMultivalues(df) ==
    WithColumn(df, Multivalues,
               [n \in 1..Len(df.rows) |-> StrVal(record_multivalues(df.rows[n]))])

\* cols of line 154.
SelectedColumns ==
    <<year, insurer, type, policy_number, S3_premium, Given_premium, datatype,
      Status, Multivalues>>

\* The final column names (lines 157-163).
ComparisonColumns ==
    <<Year, Insurer, Type, Policy_number, S3_premium, Given_premium, Datatype,
      Status, Multivalues>>

\* merged[cols], then the renaming of lines 157-163.
Selected(df) ==
    DataFrame(ComparisonColumns,
        [n \in 1..Len(df.rows) |->
            Row(ComparisonColumns,
                [k \in 1..Len(SelectedColumns) |-> df.rows[n][SelectedColumns[k]]])])

\* int(x) of every year of df does not raise.
YearsConvert(df) == \A n \in 1..Len(df.rows) : ConvertsToInt(df.rows[n][year])

\* pd.merge refuses, in the pandas versions that check it, to merge a key
\* column of strings with a numeric one: the Given policy numbers are numeric
\* when none of them is a string.
MixedKeyTypes(left, right) ==
    /\ left.rows # <<>>
    /\ right.rows # <<>>
    /\ \A n \in 1..Len(right.rows) : right.rows[n][policy_number].t # "str"

\* Lines 116-150: the merged frame with Status, Multivalues and the renamed
\* premium columns.
Merged(left, right) ==
    RenameColumn(
        RenameColumn(WithMultivalues(WithStatus(Merge(left, right))),
                     premium_s3, S3_premium),
        premium_given, Given_premium)

\* What a call of compare_data ends with: its result, or Raised for an
\* exception, and s3_df and aggregated_given_df as the call leaves them.
Outcome(result, s3, aggregated) ==
    [result |-> result, s3_df |-> s3, aggregated_given_df |-> aggregated]

\* Lines 108-164, after the aggregation has returned aggregated; strict says
\* whether this pandas checks the key types of a merge.
CompareAggregated(renamed, aggregated, strict) ==
    IF \E k \in 1..Len(StandardizedColumns) :
           StandardizedColumns[k] \notin ColumnSet(renamed)
    THEN Outcome(Raised, renamed, aggregated)
    ELSE IF year \notin ColumnSet(renamed) \/ ~YearsConvert(renamed)
    THEN Outcome(Raised, Standardized(renamed, StandardizedColumns), aggregated)
    ELSE LET left == YearAsInt(Standardized(renamed, StandardizedColumns))
         IN  IF ~YearsConvert(aggregated) THEN Outcome(Raised, left, aggregated)
             ELSE LET right == YearAsInt(aggregated)
                  IN  IF strict /\ MixedKeyTypes(left, right)
                      THEN Outcome(Raised, left, right)
                      ELSE LET merged == Merged(left, right)
                           IN  IF \E k \in 1..Len(SelectedColumns) :
                                      SelectedColumns[k] \notin ColumnSet(merged)
                               THEN Outcome(Raised, left, right)
                               ELSE Outcome(Selected(merged), left, right)

\* compare_data(s3_df, given_df), lines 95-164.  aggregate_given_data raises
\* when given_df has no 'type' column.
compare_data(s3, given, strict) ==
    IF aggregate_given_data(given) = Raised
    THEN Outcome(Raised, S3Renamed(s3), Raised)
    ELSE CompareAggregated(S3Renamed(s3), aggregate_given_data(given), strict)

----------------------------------------------------------------------------
(* Inputs of the header location: raw sheets of two columns.               *)

\* "Premium Report" and an empty cell: a title row.
TitleRow == <<StrVal(<<"P", "r", "e", "m", "i", "u", "m", " ", "R", "e", "p", "o", "r", "t">>),
              NaN>>

\* "Policy Number" and " Total Premium ": a header row.
HeaderRow == <<StrVal(<<"P", "o", "l", "i", "c", "y", " ", "N", "u", "m", "b", "e", "r">>),
               StrVal(<<" ", "T", "o", "t", "a", "l", " ", "P", "r", "e", "m", "i", "u", "m", " ">>)>>

\* "policy number" and "Amount": only one of the two texts.
PolicyOnlyRow == <<StrVal(policy_number), StrVal(<<"A", "m", "o", "u", "n", "t">>)>>

\* "Grand Total" and "Premium Policy Number": both texts appear in the joined
\* row, neither is a column label.
SplitRow == <<StrVal(<<"G", "r", "a", "n", "d", " ", "T", "o", "t", "a", "l">>),
              StrVal(<<"P", "r", "e", "m", "i", "u", "m", " ", "P", "o", "l", "i", "c", "y",
                       " ", "N", "u", "m", "b", "e", "r">>)>>

SampleRowKinds == {TitleRow, HeaderRow, PolicyOnlyRow, SplitRow}

\* The longest raw sheet of the header location.
MaxSheetRows == 6

RawSheets == UNION {[1..n -> SampleRowKinds] : n \in 1..MaxSheetRows}

----------------------------------------------------------------------------
(* Inputs of the extraction: workbooks of named sheets.                    *)

\* Data rows: policy "P1" with premium 300, a row without policy number with
\* premium 500, policy 7 (a number) with premium 200.
DataRowP1 == <<StrVal(<<"P", "1">>), IntVal(300)>>

DataRowBlank == <<NaN, IntVal(500)>>

DataRow7 == <<IntVal(7), IntVal(200)>>

SheetBodies ==
    { <<HeaderRow, DataRowP1, DataRowBlank>>,
      <<TitleRow, <<NaN, NaN>>, TitleRow, HeaderRow, DataRow7>>,
      <<TitleRow, DataRowP1>>,
      <<PolicyOnlyRow, DataRowP1>>,
      <<SplitRow, DataRowP1>>,
      <<TitleRow, TitleRow, TitleRow, TitleRow, TitleRow, HeaderRow, DataRowP1>> }

SheetNames ==
    { <<"B", "a", "s", "e", "1">>,
      <<"b", "a", "s", "e", " ", "2">>,
      <<"R", "E", "W", "A", "R", "D">>,
      <<"S", "u", "m", "m", "a", "r", "y">> }

\* The files main finds, each with the name of its year folder.
Files ==
    { [file_path |-> <<"r", "o", "o", "t", "/", "2", "0", "2", "3", "/",
                       "A", "c", "m", "e", ".", "x", "l", "s", "x">>,
       year |-> StrVal(<<"2", "0", "2", "3">>)],
      [file_path |-> <<"r", "o", "o", "t", "/", "2", "0", "2", "4", "/",
                       "h", "d", "f", "c", ".", "v", "2", ".", "x", "l", "s", "b">>,
       year |-> StrVal(<<"2", "0", "2", "4">>)] }

\* The most sheets of a workbook.
MaxSheets == 2

Sheets == [name : SheetNames, rows : SheetBodies]

\* Sheet names of one workbook differ, whatever their letter case.
DistinctNames(sheets) ==
    \A a, b \in 1..Len(sheets) :
        a # b => Lower(sheets[a].name) # Lower(sheets[b].name)

Workbooks ==
    { [file |-> f, sheets |-> ss] :
        f \in Files,
        ss \in {q \in UNION {[1..n -> Sheets] : n \in 0..MaxSheets} : DistinctNames(q)} }

NoWorkbook == [file |-> None, sheets |-> <<>>]

----------------------------------------------------------------------------
(* Inputs of the aggregation: rows of the pre-aggregation Given table.     *)

acme == <<"a", "c", "m", "e">>

Acme == <<"A", "c", "m", "e">>

base1 == <<"b", "a", "s", "e", "1">>

base_2 == <<"b", "a", "s", "e", " ", "2">>

p1 == <<"p", "1">>

P1 == <<"P", "1">>

y2023 == <<"2", "0", "2", "3">>

\* A row as extract_sheet_data builds it for a file of the 2023 folder.
GivenRow(ins, ty, policy, amount) ==
    Row(ExtractedColumns,
        <<StrVal(y2023), StrVal(ins), StrVal(ty), policy, IntVal(amount),
          StrVal(TypeName(IntVal(amount)))>>)

\* Rows of the sheets "base1", "base 2" and "reward" of acme for policy p1,
\* a row of file Acme with policy P1, a row whose policy number is the
\* number 7.
ExtractedRows ==
    { GivenRow(acme, base1, StrVal(p1), 300),
      GivenRow(acme, base_2, StrVal(p1), 200),
      GivenRow(acme, reward, StrVal(p1), 200),
      GivenRow(Acme, base1, StrVal(P1), 300),
      GivenRow(acme, base1, IntVal(7), 200) }

\* The same rows, a row without policy number and a row whose Type starts
\* with neither "base" nor "reward".
AggregationRows ==
    ExtractedRows
    \cup { GivenRow(acme, base1, NaN, 500),
           GivenRow(acme, <<"o", "t", "h", "e", "r">>, StrVal(p1), 100) }

\* The most rows of a Given table handed to the aggregation alone.
MaxAggRows == 3

\* The most rows of the Given table handed to compare_data.
MaxGivenRows == 2

----------------------------------------------------------------------------
(* Inputs of the comparison: the S3 table as main reads it.                *)

\* The header of the S3 premium column: "Total Premium", " PREMIUM ".
S3PremiumHeaders ==
    { <<"T", "o", "t", "a", "l", " ", "P", "r", "e", "m", "i", "u", "m">>,
      <<" ", "P", "R", "E", "M", "I", "U", "M", " ">> }

S3Columns(header) ==
    << <<"Y", "e", "a", "r">>, <<"I", "n", "s", "u", "r", "e", "r">>, <<"T", "y", "p", "e">>,
       <<"P", "o", "l", "i", "c", "y", " ", "N", "u", "m", "b", "e", "r">>, header >>

\* S3 rows of year 2023 as <<Insurer, Type, Policy Number, premium>>:
\* "Acme ", "Base", "P1", 500; "acme", "base", "p1", 300; "acme", "base", 7,
\* 200; "acme", "reward", "p1" without premium.
S3Cells ==
    { <<StrVal(<<"A", "c", "m", "e", " ">>), StrVal(<<"B", "a", "s", "e">>), StrVal(P1), IntVal(500)>>,
      <<StrVal(acme), StrVal(base), StrVal(p1), IntVal(300)>>,
      <<StrVal(acme), StrVal(base), IntVal(7), IntVal(200)>>,
      <<StrVal(acme), StrVal(reward), StrVal(p1), NaN>> }

\* The most rows of the S3 table.
MaxS3Rows == 2

\* The reference source gives every composite key one row.
DistinctS3Keys(cells) ==
    \A a, b \in 1..Len(cells) :
        a # b => SubSeq(cells[a], 1, 3) # SubSeq(cells[b], 1, 3)

S3Tables == {cells \in UNION {[1..n -> S3Cells] : n \in 0..MaxS3Rows} : DistinctS3Keys(cells)}

S3Frame(header, cells) ==
    DataFrame(S3Columns(header),
              [n \in 1..Len(cells) |-> Row(S3Columns(header), <<IntVal(2023)>> \o cells[n])])

----------------------------------------------------------------------------
(* Actions of the extraction.                                              *)

ExtractIdle ==
    /\ workbook = NoWorkbook
    /\ sheet_idx = 0
    /\ extracted_frames = <<>>
    /\ extracted_data = None

HeaderIdle == sample_df = <<>> /\ header_row_index = None

CompareIdle ==
    /\ given_df = None
    /\ shuffled_df = None
    /\ agg_df = None
    /\ agg_shuffled = None
    /\ s3_df = None
    /\ comparison_df = None

InitHeader ==
    /\ pc = "locate"
    /\ sample_df \in RawSheets
    /\ header_row_index = None
    /\ ExtractIdle
    /\ CompareIdle

\* Lines 27-37 of extract_sheet_data on the sheet sample_df.
LocateHeaderRow ==
    /\ pc = "locate"
    /\ header_row_index' = LocateHeader(sample_df)
    /\ pc' = "located"
    /\ UNCHANGED <<sample_df, workbook, sheet_idx, extracted_frames, extracted_data,
                   given_df, shuffled_df, agg_df, agg_shuffled, s3_df, comparison_df>>

NextHeader == LocateHeaderRow

SpecHeader == InitHeader /\ [][NextHeader]_vars

InitExtract ==
    /\ pc = "sheets"
    /\ workbook \in Workbooks
    /\ sheet_idx = 1
    /\ extracted_frames = <<>>
    /\ extracted_data = None
    /\ HeaderIdle
    /\ CompareIdle

\* One pass of the loop of line 65 over a sheet that line 66 does not select.
SkipSheet ==
    /\ pc = "sheets"
    /\ sheet_idx <= Len(workbook.sheets)
    /\ ~IsSelectedSheet(workbook.sheets[sheet_idx].name)
    /\ sheet_idx' = sheet_idx + 1
    /\ UNCHANGED <<pc, sample_df, header_row_index, workbook, extracted_frames,
                   extracted_data, given_df, shuffled_df, agg_df, agg_shuffled,
                   s3_df, comparison_df>>

\* One pass of the loop of line 65 over a selected sheet (lines 67-69).
ExtractSheet ==
    /\ pc = "sheets"
    /\ sheet_idx <= Len(workbook.sheets)
    /\ IsSelectedSheet(workbook.sheets[sheet_idx].name)
    /\ LET sheet    == workbook.sheets[sheet_idx]
           df_sheet == extract_sheet_data(sheet.rows, sheet.name, workbook.file.year,
                                          StrVal(InsurerOf(workbook.file.file_path)))
       IN  extracted_frames' =
               IF df_sheet # None THEN Append(extracted_frames, df_sheet)
               ELSE extracted_frames
    /\ sheet_idx' = sheet_idx + 1
    /\ UNCHANGED <<pc, sample_df, header_row_index, workbook, extracted_data,
                   given_df, shuffled_df, agg_df, agg_shuffled, s3_df, comparison_df>>

\* Lines 70-73: the loop is over, the frames are concatenated and returned.
ReturnExtracted ==
    /\ pc = "sheets"
    /\ sheet_idx > Len(workbook.sheets)
    /\ extracted_data' =
           IF extracted_frames # <<>> THEN Concat(extracted_frames) ELSE EmptyDataFrame
    /\ pc' = "returned"
    /\ UNCHANGED <<sample_df, header_row_index, workbook, sheet_idx, extracted_frames,
                   given_df, shuffled_df, agg_df, agg_shuffled, s3_df, comparison_df>>

NextExtract == SkipSheet \/ ExtractSheet \/ ReturnExtracted

SpecExtract == InitExtract /\ [][NextExtract]_vars

----------------------------------------------------------------------------
(* Aggregation of the Given table in two processing orders.                *)

InitAggregate ==
    /\ pc = "assembled"
    /\ \E rows \in UNION {[1..n -> AggregationRows] : n \in 0..MaxAggRows} :
          given_df = GivenFrame(rows)
    /\ shuffled_df = given_df
    /\ agg_df = None
    /\ agg_shuffled = None
    /\ s3_df = None
    /\ comparison_df = None
    /\ HeaderIdle
    /\ ExtractIdle

\* Another processing order of the sheets and files (main, lines 187-196):
\* two neighbouring rows of the concatenated table change places.
SwapRows ==
    /\ pc = "assembled"
    /\ \E j \in 1..(Len(shuffled_df.rows) - 1) :
          shuffled_df' =
              [shuffled_df EXCEPT !.rows =
                  [n \in 1..Len(shuffled_df.rows) |->
                      IF n = j THEN shuffled_df.rows[j + 1]
                      ELSE IF n = j + 1 THEN shuffled_df.rows[j]
                      ELSE shuffled_df.rows[n]]]
    /\ UNCHANGED <<pc, sample_df, header_row_index, workbook, sheet_idx,
                   extracted_frames, extracted_data, given_df, agg_df, agg_shuffled,
                   s3_df, comparison_df>>

\* The frame aggregate_given_data leaves behind in its argument.
AfterAggregate(df) ==
    IF aggregate_given_data(df) = Raised THEN df ELSE WithAggType(df)

\* aggregate_given_data on the table in both orders.
AggregateBoth ==
    /\ pc = "assembled"
    /\ agg_df' = aggregate_given_data(given_df)
    /\ agg_shuffled' = aggregate_given_data(shuffled_df)
    /\ given_df' = AfterAggregate(given_df)
    /\ shuffled_df' = AfterAggregate(shuffled_df)
    /\ pc' = "aggregated"
    /\ UNCHANGED <<sample_df, header_row_index, workbook, sheet_idx,
                   extracted_frames, extracted_data, s3_df, comparison_df>>

NextAggregate == SwapRows \/ AggregateBoth

SpecAggregate == InitAggregate /\ [][NextAggregate]_vars

----------------------------------------------------------------------------
(* main, lines 198-207: the Given table assembled and compared.            *)

InitCompare ==
    /\ pc = "assembled"
    /\ \E rows \in UNION {[1..n -> ExtractedRows] : n \in 0..MaxGivenRows} :
          given_df = GivenFrame(rows)
    /\ \E header \in S3PremiumHeaders, cells \in S3Tables :
          s3_df = S3Frame(header, cells)
    /\ shuffled_df = None
    /\ agg_df = None
    /\ agg_shuffled = None
    /\ comparison_df = None
    /\ HeaderIdle
    /\ ExtractIdle

\* comparison_df = data_comparer.compare_data(s3_df, given_df); compare_data
\* and aggregate_given_data change their arguments in place.
CompareData ==
    /\ pc = "assembled"
    /\ \E strict \in BOOLEAN :
          \E call \in {compare_data(s3_df, given_df, strict)} :
              /\ comparison_df' = call.result
              /\ pc' = IF call.result = Raised THEN "raised" ELSE "compared"
              /\ agg_df' = call.aggregated_given_df
              /\ s3_df' = call.s3_df
    /\ given_df' = AfterAggregate(given_df)
    /\ UNCHANGED <<sample_df, header_row_index, workbook, sheet_idx,
                   extracted_frames, extracted_data, shuffled_df, agg_shuffled>>

NextCompare == CompareData

SpecCompare == InitCompare /\ [][NextCompare]_vars

----------------------------------------------------------------------------
(* Claims about the extraction.                                            *)

\* The 0-based indices of the sampled rows whose joined lowercase text holds
\* both "total premium" and "policy number".
QualifyingRows(rows) ==
    {n \in 0..((IF Len(rows) < NSampleRows THEN Len(rows) ELSE NSampleRows) - 1) :
        /\ Contains(row_str(rows[n + 1]), total_premium)
        /\ Contains(row_str(rows[n + 1]), policy_number)}

\* C7: the header index is the smallest index among the first five raw rows
\* whose joined lowercase text contains both "total premium" and "policy
\* number", and 0 when no sampled row qualifies.
C7_HeaderIsFirstQualifyingRow ==
    pc = "located" =>
        IF QualifyingRows(sample_df) = {}
        THEN header_row_index = IntVal(0)
        ELSE /\ header_row_index.v \in QualifyingRows(sample_df)
             /\ \A n \in QualifyingRows(sample_df) : header_row_index.v <= n

\* A header at raw row 3 below three rows that do not qualify, with a second
\* qualifying row under it, located at index 3.
C7_Witness ==
    /\ pc = "located"
    /\ Len(sample_df) >= 5
    /\ QualifyingRows(sample_df) = {3, 4}
    /\ header_row_index = IntVal(3)

\* The sheet's normalized column labels hold both required names.
HasRequiredColumns(sheet) ==
    LET labels == NormalizeLabels(ColumnLabels(sheet.rows, LocateHeader(sheet.rows).v))
    IN  /\ \E k \in 1..Len(labels) : labels[k] = StrVal(policy_number)
        /\ \E k \in 1..Len(labels) : labels[k] = StrVal(total_premium)

NameHasPrefix(sheet) ==
    \/ StartsWith(Lower(sheet.name), <<"b", "a", "s", "e">>)
    \/ StartsWith(Lower(sheet.name), <<"r", "e", "w", "a", "r", "d">>)

\* ins is the file name of path without its directories and its extension.
IsStemOf(ins, path) ==
    \E a \in 0..Len(path), b \in 1..Len(path) :
        /\ a < b
        /\ a = 0 \/ path[a] = "/"
        /\ path[b] = "."
        /\ SubSeq(path, a + 1, b - 1) = ins
        /\ \A n \in (a + 1)..Len(path) : path[n] # "/"
        /\ \A n \in (b + 1)..Len(path) : path[n] # "."

RowsOfType(df, ty) == {n \in 1..Len(df.rows) : df.rows[n][Type] = StrVal(ty)}

----------------------------------------------------------------------------
(* Claims about the aggregation.                                           *)

\* The canonical Type of a Type text.
CanonicalOf(ty) ==
    IF StartsWith(ty, <<"b", "a", "s", "e">>) THEN <<"b", "a", "s", "e">>
    ELSE IF StartsWith(ty, <<"r", "e", "w", "a", "r", "d">>) THEN <<"r", "e", "w", "a", "r", "d">>
    ELSE ty

\* (Year, Insurer, canonical Type, PolicyNumber) of a pre-aggregation row.
CanonicalKey(row) ==
    <<row[year], row[insurer], StrVal(CanonicalOf(row[type].v)), row[policy_number]>>

\* (Year, Insurer, Type, PolicyNumber) of an aggregated row.
AggregatedKey(row) == <<row[year], row[insurer], row[type], row[policy_number]>>

RECURSIVE SumOver(_, _)
SumOver(rows, idx) ==
    IF idx = {} THEN 0
    ELSE LET n == CHOOSE m \in idx : TRUE
         IN  rows[n][premium].v + SumOver(rows, idx \ {n})

\* The aggregated table out has exactly one row per canonical key of the
\* rows idx of the input, holding the sum of the premiums of the key's rows.
OneRowPerKey(out, input, idx) ==
    /\ \A n \in idx :
          Cardinality({g \in 1..Len(out.rows) :
                          AggregatedKey(out.rows[g]) = CanonicalKey(input.rows[n])}) = 1
    /\ \A g \in 1..Len(out.rows) :
          LET members == {n \in idx : CanonicalKey(input.rows[n]) = AggregatedKey(out.rows[g])}
          IN  /\ members # {}
              /\ out.rows[g][premium] = IntVal(SumOver(input.rows, members))

\* C6: one aggregated row per canonical key of the input table
\* with the sum of its rows' premiums, no input row being left out.
C6_EveryRowInAGroup ==
    (pc = "aggregated" /\ agg_df # Raised) =>
        OneRowPerKey(agg_df, given_df, 1..Len(given_df.rows))

----------------------------------------------------------------------------
(* Claims about the comparison.                                            *)

\* (Year, Insurer, Type, PolicyNumber) of a row of the comparison table.
ComparisonKey(row) == <<row[Year], row[Insurer], row[Type], row[Policy_number]>>

\* The rows of df whose key is key; caps says that df has the column names
\* of the comparison table.
RowsOfKey(df, key, caps) ==
    {n \in 1..Len(df.rows) :
        (IF caps THEN ComparisonKey(df.rows[n]) ELSE AggregatedKey(df.rows[n])) = key}

\* The Status the five rules give for an S3 premium and a Given premium.
StatusByRule(s3_premium, given_premium) ==
    IF s3_premium = NaN /\ given_premium # NaN THEN <<"M", "i", "s", "s", "i", "n", "g", " ", "i", "n", " ", "S", "3">>
    ELSE IF given_premium = NaN /\ s3_premium # NaN
         THEN <<"M", "i", "s", "s", "i", "n", "g", " ", "i", "n", " ", "G", "i", "v", "e", "n">>
    ELSE IF s3_premium = NaN /\ given_premium = NaN
         THEN <<"B", "o", "t", "h", " ", "M", "i", "s", "s", "i", "n", "g">>
    ELSE IF s3_premium = given_premium THEN <<"M", "a", "t", "c", "h", "e", "s">>
    ELSE <<"N", "o", "t", " ", "m", "a", "t", "c", "h", "e", "s">>

\* C1: every row of the comparison table has the Status that the first
\* matching of the five rules gives for its S3 premium and its Given premium;
\* a key of the S3 table alone has "Missing in Given" and Multivalues "".
C1_StatusFollowsRules ==
    pc = "compared" =>
        \A n \in 1..Len(comparison_df.rows) :
            LET row == comparison_df.rows[n]
            IN  /\ row[Status] = StrVal(StatusByRule(row[S3_premium], row[Given_premium]))
                /\ (row[S3_premium] # NaN /\ row[Given_premium] = NaN)
                       => row[Multivalues] = StrVal(<<>>)

\* C2 as claimed: every key of the S3 table or of the aggregated Given table
\* is the key of exactly one row of the comparison table, and every row of
\* the comparison table has a key of one of the two tables.
C2_EveryKeyExactlyOnce ==
    pc = "compared" =>
        /\ \A n \in 1..Len(s3_df.rows) :
              Cardinality(RowsOfKey(comparison_df, AggregatedKey(s3_df.rows[n]), TRUE)) = 1
        /\ \A g \in 1..Len(agg_df.rows) :
              Cardinality(RowsOfKey(comparison_df, AggregatedKey(agg_df.rows[g]), TRUE)) = 1
        /\ \A n \in 1..Len(comparison_df.rows) :
              \/ RowsOfKey(s3_df, ComparisonKey(comparison_df.rows[n]), FALSE) # {}
              \/ RowsOfKey(agg_df, ComparisonKey(comparison_df.rows[n]), FALSE) # {}

\* C2 amended: every key of the S3 table is the key of as many rows of the
\* comparison table as the S3 table has rows of that key after the
\* normalisation (one when it has one); every key of the aggregated Given
\* table alone is the key of exactly one row; every row of the comparison
\* table has a key of one of the two tables.
C2_EveryKeyOncePerS3Row ==
    pc = "compared" =>
        /\ \A n \in 1..Len(s3_df.rows) :
              Cardinality(RowsOfKey(comparison_df, AggregatedKey(s3_df.rows[n]), TRUE))
                  = Cardinality(RowsOfKey(s3_df, AggregatedKey(s3_df.rows[n]), FALSE))
        /\ \A g \in 1..Len(agg_df.rows) :
              RowsOfKey(s3_df, AggregatedKey(agg_df.rows[g]), FALSE) = {}
                  => Cardinality(RowsOfKey(comparison_df, AggregatedKey(agg_df.rows[g]), TRUE)) = 1
        /\ \A n \in 1..Len(comparison_df.rows) :
              \/ RowsOfKey(s3_df, ComparisonKey(comparison_df.rows[n]), FALSE) # {}
              \/ RowsOfKey(agg_df, ComparisonKey(comparison_df.rows[n]), FALSE) # {}

\* A key of the S3 table alone, a key of both tables and a key of the Given
\* table alone, each in one row of the comparison table.
C2_Witness ==
    /\ pc = "compared"
    /\ Len(s3_df.rows) = 2
    /\ Len(agg_df.rows) = 2
    /\ Len(comparison_df.rows) = 3
    /\ \E n \in 1..3 : /\ comparison_df.rows[n][S3_premium] # NaN
                       /\ comparison_df.rows[n][Given_premium] # NaN
    /\ \E n \in 1..3 : /\ comparison_df.rows[n][S3_premium] # NaN
                       /\ comparison_df.rows[n][Given_premium] = NaN
    /\ \E n \in 1..3 : /\ comparison_df.rows[n][S3_premium] = NaN
                       /\ comparison_df.rows[n][Given_premium] # NaN

\* "[s, g]"
Bracketed(s, g) == <<"[">> \o Str(s) \o <<",", " ">> \o Str(g) \o <<"]">>

\* C3: a row whose S3 premium and Given premium are both present and differ
\* has Status "Not matches" and Multivalues "[s, g]"; a row with any other
\* Status has Multivalues "".
C3_MultivaluesOnMismatch ==
    pc = "compared" =>
        \A n \in 1..Len(comparison_df.rows) :
            LET row == comparison_df.rows[n]
            IN  /\ (/\ row[S3_premium] # NaN
                    /\ row[Given_premium] # NaN
                    /\ row[S3_premium] # row[Given_premium])
                       => /\ row[Status] = StrVal(<<"N", "o", "t", " ", "m", "a", "t", "c", "h", "e", "s">>)
                          /\ row[Multivalues] =
                                 StrVal(Bracketed(row[S3_premium], row[Given_premium]))
                /\ row[Status] # StrVal(<<"N", "o", "t", " ", "m", "a", "t", "c", "h", "e", "s">>)
                       => row[Multivalues] = StrVal(<<>>)

\* C4: when the S3 premium of a key equals the sum of the premiums that two
\* sub-type sheets of the key's canonical Type give its PolicyNumber, and the
\* Given table has no other row, the aggregated Given premium is that sum
\* and the key's row of the comparison table has Status "Matches".
C4_SummedSheetsMatch ==
    (pc = "compared" /\ Len(given_df.rows) = 2) =>
        \A n \in 1..Len(s3_df.rows) :
            (/\ given_df.rows[1][type] # given_df.rows[2][type]
             /\ CanonicalKey(given_df.rows[1]) = CanonicalKey(given_df.rows[2])
             /\ <<CanonicalKey(given_df.rows[1])[2], CanonicalKey(given_df.rows[1])[3],
                  CanonicalKey(given_df.rows[1])[4]>>
                    = <<s3_df.rows[n][insurer], s3_df.rows[n][type], s3_df.rows[n][policy_number]>>
             /\ s3_df.rows[n][premium]
                    = IntVal(given_df.rows[1][premium].v + given_df.rows[2][premium].v))
            => /\ \E g \in 1..Len(agg_df.rows) :
                     /\ AggregatedKey(agg_df.rows[g]) = AggregatedKey(s3_df.rows[n])
                     /\ agg_df.rows[g][premium] = s3_df.rows[n][premium]
               /\ \E m \in 1..Len(comparison_df.rows) :
                     /\ ComparisonKey(comparison_df.rows[m]) = AggregatedKey(s3_df.rows[n])
                     /\ comparison_df.rows[m][Status] = StrVal(<<"M", "a", "t", "c", "h", "e", "s">>)

\* Insurer, Type and PolicyNumber stringified, trimmed and lowercased.
NormalizedKey(row) ==
    <<row[year],
      StrVal(Lower(Strip(Str(row[insurer])))),
      StrVal(Lower(Strip(Str(row[type])))),
      StrVal(Lower(Strip(Str(row[policy_number]))))>>

\* C5: the keys of both tables enter the merge normalized, so that a row of
\* the S3 table and a row of the aggregated Given table whose keys differ only
\* in letter case, surrounding whitespace or string-versus-number
\* representation are joined into one row of the comparison table.
C5_BothSidesNormalized ==
    pc = "compared" =>
        \A n \in 1..Len(s3_df.rows), g \in 1..Len(agg_df.rows) :
            NormalizedKey(s3_df.rows[n]) = NormalizedKey(agg_df.rows[g])
                => /\ AggregatedKey(s3_df.rows[n]) = NormalizedKey(s3_df.rows[n])
                   /\ AggregatedKey(agg_df.rows[g]) = NormalizedKey(agg_df.rows[g])
                   /\ \E m \in 1..Len(comparison_df.rows) :
                         /\ ComparisonKey(comparison_df.rows[m]) = NormalizedKey(s3_df.rows[n])
                         /\ comparison_df.rows[m][S3_premium] = s3_df.rows[n][premium]
                         /\ comparison_df.rows[m][Given_premium] = agg_df.rows[g][premium]

\* C10: with the empty Given table of main's line 201 the run ends without
\* an exception and the comparison table has one row per S3 key, each with
\* Status "Missing in Given" and Multivalues "".
C10_EmptyGivenCompletes ==
    (pc # "assembled" /\ given_df = EmptyDataFrame) =>
        /\ pc = "compared"
        /\ Len(comparison_df.rows) = Len(s3_df.rows)
        /\ \A n \in 1..Len(s3_df.rows) :
              \E m \in 1..Len(comparison_df.rows) :
                  /\ ComparisonKey(comparison_df.rows[m]) = AggregatedKey(s3_df.rows[n])
                  /\ comparison_df.rows[m][Status]
                         = StrVal(<<"M", "i", "s", "s", "i", "n", "g", " ", "i", "n", " ",
                                    "G", "i", "v", "e", "n">>)
                  /\ comparison_df.rows[m][Multivalues] = StrVal(<<>>)

====
